---- MODULE Spec2Model ----
(***************************************************************************)
(* Model of Tools/1-Data_Gathering/BoatTracking/main.go: the AIS stream    *)
(* client that reads frames from a websocket, decodes them, and forwards   *)
(* PositionReport envelopes to Kafka keyed by UserID.                      *)
(*                                                                         *)
(* The program is one sequential goroutine; pc is its position.  The       *)
(* environment (dial outcome, frames arriving, broker outcome) is chosen   *)
(* nondeterministically.  trace is the history of externally visible       *)
(* operations, in program order.                                           *)
(***************************************************************************)
EXTENDS Integers, Sequences, FiniteSets, TLC

(* ---------------------------- bounds ----------------------------------- *)

\* number of frames the upstream delivers before the model forces a read error
MaxFrames == 3

\* number of partitions of the topic
NumPartitions == 2

(* ------------------------- values and types ---------------------------- *)

Absent == "<absent>"

\* The zero value of the PositionReport struct (main.go:20-24).
ZeroPositionReport == [UserID |-> 0, Latitude |-> 0, Longitude |-> 0]

\* The zero value of the Message struct (main.go:26-31).
ZeroMessage == [MessageType |-> "", PositionReport |-> ZeroPositionReport]

\* A raw inbound frame is described by the shape of its text:
\*   syntax  "ok" or "truncated" (the text is not a complete JSON value)
\*   mtype   the "MessageType" member (Absent when missing)
\*   hasPR   whether Message.PositionReport is present
\*   uidKind "int" when the UserID member is an integer literal,
\*           "string" when it is a JSON string
\*   uid, lat, lon  the literals (coordinates in hundredths of a degree)
\*   extra   whether the object carries members the Message struct lacks
\*           (the feed's MetaData member)
Frame(syntax, mtype, hasPR, uidKind, uid, lat, lon, extra) ==
    [syntax |-> syntax, mtype |-> mtype, hasPR |-> hasPR, uidKind |-> uidKind,
     uid |-> uid, lat |-> lat, lon |-> lon, extra |-> extra]

FramePR367     == Frame("ok", "PositionReport", TRUE, "int", 367123456, 5150, -12, FALSE)
FramePR5       == Frame("ok", "PositionReport", TRUE, "int", 5, 4460, -6350, TRUE)
FramePRRange   == Frame("ok", "PositionReport", TRUE, "int", -7, 9500, 20000, FALSE)
FramePREmpty   == Frame("ok", "PositionReport", FALSE, "int", 0, 0, 0, FALSE)
FrameStatic    == Frame("ok", "ShipStaticData", FALSE, "int", 0, 0, 0, FALSE)
FrameTruncated == Frame("truncated", "PositionReport", FALSE, "int", 0, 0, 0, FALSE)
FrameBadUID    == Frame("ok", "PositionReport", TRUE, "string", 0, 100, 200, FALSE)

\* The frames the upstream may deliver.
Frames ==
    {FramePR367, FramePR5, FramePRRange, FramePREmpty,
     FrameStatic, FrameTruncated, FrameBadUID}

NoFrame == Frame("none", Absent, FALSE, "int", 0, 0, 0, FALSE)

(* --------------------------- pure functions ---------------------------- *)

DigitChars == <<"0", "1", "2", "3", "4", "5", "6", "7", "8", "9">>

RECURSIVE FormatUint(_)
\* decimal digits of a non-negative integer, most significant first
FormatUint(n) ==
    IF n < 10 THEN <<DigitChars[n + 1]>>
    ELSE Append(FormatUint(n \div 10), DigitChars[(n % 10) + 1])

\* []byte(fmt.Sprintf("%d", n)) as a sequence of characters (main.go:80)
Sprintf_d(n) == IF n < 0 THEN <<"-">> \o FormatUint(-n) ELSE FormatUint(n)

\* json.Unmarshal(messageJSON, &message) (main.go:62-63) into a Message:
\* err is TRUE when the text is malformed or a member has the wrong JSON type;
\* members missing from the text keep their zero value, unknown members are
\* ignored.
Unmarshal(f) ==
    IF f.syntax # "ok" THEN [err |-> TRUE, message |-> ZeroMessage]
    ELSE
      LET mt == IF f.mtype = Absent THEN "" ELSE f.mtype
          pr == IF ~f.hasPR THEN ZeroPositionReport
                ELSE [UserID    |-> IF f.uidKind = "int" THEN f.uid ELSE 0,
                      Latitude  |-> f.lat,
                      Longitude |-> f.lon]
      IN [err     |-> f.hasPR /\ f.uidKind # "int",
          message |-> [MessageType |-> mt, PositionReport |-> pr]]

\* json.Marshal of a decoded Message: the canonical text of the struct, which
\* always carries both members and nothing else.
Marshal(m) ==
    Frame("ok", m.MessageType, TRUE, "int", m.PositionReport.UserID,
          m.PositionReport.Latitude, m.PositionReport.Longitude, FALSE)

\* number of bytes of a raw frame, up to the fixed punctuation
RawLen(f) ==
    IF f.syntax # "ok" THEN 15
    ELSE 30 + (IF f.mtype = Absent THEN 0 ELSE 14)
            + (IF f.hasPR THEN 50 + Len(Sprintf_d(f.uid)) + Len(Sprintf_d(f.lat))
                                  + Len(Sprintf_d(f.lon))
               ELSE 0)
            + (IF f.extra THEN 40 ELSE 0)

\* a plausible slip: the decoded struct is serialized again
KafkaMessage_Reencoded(message, messageJSON) ==
    [Key   |-> Sprintf_d(message.PositionReport.UserID),
     Value |-> Marshal(message)]

\* kafka.Message{Key: ..., Value: messageJSON} (main.go:79-82)
KafkaMessage(message, messageJSON) ==
    [Key   |-> Sprintf_d(message.PositionReport.UserID),
     Value |-> messageJSON]

\* a plausible slip: an envelope whose payload decoded to zero values is
\* skipped
IsPositionReport_NonZero(message) ==
    /\ message.MessageType = "PositionReport"
    /\ message.PositionReport # ZeroPositionReport

\* a plausible slip: a report with coordinates out of range is skipped
IsPositionReport_InRange(message) ==
    /\ message.MessageType = "PositionReport"
    /\ message.PositionReport.Latitude >= -9000
    /\ message.PositionReport.Latitude <= 9000
    /\ message.PositionReport.Longitude >= -18000
    /\ message.PositionReport.Longitude <= 18000

\* a plausible slip: every decoded envelope is forwarded
IsPositionReport_Any(message) == message.MessageType # ""

\* message.MessageType == "PositionReport" (main.go:68)
IsPositionReport(message) == message.MessageType = "PositionReport"

(* ------------------------------ subscribe ------------------------------ *)

\* SubscribeMessage{APIKey: ..., BoundingBoxes: {{{-180,-90},{180,90}}}}
\* (main.go:40-45)
subscribeMessage ==
    [APIKey        |-> "4275544f465907fb8c57875dcc52425666683d75",
     BoundingBoxes |-> << << <<-180, -90>>, <<180, 90>> >> >>]

\* json.Marshal(subscribeMessage) (main.go:47): a string and finite numbers
\* always serialize, so the error branch at main.go:48-50 is never taken.
SubscribeMarshalErr == FALSE

(* ------------------------------ environment ---------------------------- *)

EnvNames == {"KAFKA_BROKER", "KAFKA_TOPIC", "BROKER_ADDRESS", "TOPIC_NAME"}

EnvOf(kb, kt, ba, tn) ==
    [n \in EnvNames |->
        CASE n = "KAFKA_BROKER"   -> kb
          [] n = "KAFKA_TOPIC"    -> kt
          [] n = "BROKER_ADDRESS" -> ba
          [] n = "TOPIC_NAME"     -> tn]

\* the process environments considered
Envs ==
    {EnvOf("", "", "", ""),
     EnvOf("kafka:9092", "ais", "broker:9093", "other")}

(* -------------------------------- state -------------------------------- *)

VARIABLES
    pc,          \* position of the program
    env,         \* the process environment
    kafkaWriter, \* the kafka.Writer built in main
    counters,    \* the LeastBytes balancer's bytes written per partition
    conn,        \* the websocket: "nil", "open" or "closed"
    messageJSON, \* the frame most recently read
    message,     \* the Message most recently decoded
    inflight,    \* records handed to the broker and not yet answered
    delivered,   \* records the broker has appended, in order
    retErr,      \* the error connectAISStream returned ("" before it returns)
    exitCode,    \* the exit code of the process (-1 while it runs)
    trace        \* history of operations

vars == <<pc, env, kafkaWriter, counters, conn, messageJSON, message,
          inflight, delivered, retErr, exitCode, trace>>

Partitions == 0 .. (NumPartitions - 1)

Ev(op, arg) == [op |-> op, arg |-> arg]

NumReads == Cardinality({i \in 1 .. Len(trace) : trace[i].op = "read"})

\* The states of section 4.4 in terms of the program position.
State ==
    CASE pc = "main"                                -> "Disconnected"
      [] pc \in {"dial", "subscribe"}               -> "Connecting"
      [] pc = "subscribed"                          -> "Subscribed"
      [] pc \in {"read", "unmarshal", "filter",
                 "publish", "awaitAck"}             -> "Streaming"
      [] pc \in {"returned", "exited"}                -> "Terminated"

NoWriter == [Addr |-> "", Topic |-> "", Balancer |-> "", Async |-> FALSE,
             closed |-> FALSE]

Init ==
    /\ pc = "main"
    /\ env \in Envs
    /\ kafkaWriter = NoWriter
    /\ counters = [p \in Partitions |-> 0]
    /\ conn = "nil"
    /\ messageJSON = NoFrame
    /\ message = ZeroMessage
    /\ inflight = <<>>
    /\ delivered = <<>>
    /\ retErr = ""
    /\ exitCode = -1
    /\ trace = <<>>


(* ------------------------------- helpers ------------------------------- *)

\* a plausible slip: the default broker is not applied when the variable is
\* empty
KafkaBrokerOf_NoDefault(e) == e["KAFKA_BROKER"]

\* kafkaBroker as computed at main.go:94-97
KafkaBrokerOf(e) ==
    IF e["KAFKA_BROKER"] = "" THEN "localhost:9092" ELSE e["KAFKA_BROKER"]

\* kafkaTopic as computed at main.go:99-102
KafkaTopicOf(e) ==
    IF e["KAFKA_TOPIC"] = "" THEN "ais-position-reports" ELSE e["KAFKA_TOPIC"]

\* a plausible slip: the writer is configured fire-and-forget
NewKafkaWriter_Async(e) ==
    [Addr |-> KafkaBrokerOf(e), Topic |-> KafkaTopicOf(e),
     Balancer |-> "LeastBytes", Async |-> TRUE, closed |-> FALSE]

\* &kafka.Writer{Addr: ..., Topic: ..., Balancer: &kafka.LeastBytes{}}
\* (main.go:104-108); Async is left at its zero value.
NewKafkaWriter(e) ==
    [Addr |-> KafkaBrokerOf(e), Topic |-> KafkaTopicOf(e),
     Balancer |-> "LeastBytes", Async |-> FALSE, closed |-> FALSE]

\* kafka.LeastBytes.Balance: the first partition with the fewest bytes
\* written so far; the message key plays no part.
LeastBytesBalance(c) ==
    CHOOSE p \in Partitions :
        /\ \A q \in Partitions : c[q] >= c[p]
        /\ \A q \in Partitions : q < p => c[q] > c[p]

Log(t, text) == Append(t, Ev("log", text))

(* ------------------------------- actions ------------------------------- *)

\* main.go:90-113: main builds the writer and calls connectAISStream
MainStart ==
    /\ pc = "main"
    /\ kafkaWriter' = NewKafkaWriter(env)
    /\ trace' = Log(trace, "Starting AIS stream")
    /\ pc' = "dial"
    /\ UNCHANGED <<env, counters, conn, messageJSON, message, inflight,
                   delivered, retErr, exitCode>>

\* a plausible slip: a failed dial is not checked
Dial_IgnoreErr ==
    /\ pc = "dial"
    /\ \E ok \in BOOLEAN :
         /\ conn' = IF ok THEN "open" ELSE "nil"
         /\ trace' = Append(trace, Ev("dial", ok))
         /\ pc' = "subscribe"
         /\ UNCHANGED retErr
    /\ UNCHANGED <<env, kafkaWriter, counters, messageJSON, message,
                   inflight, delivered, exitCode>>

\* main.go:34-38: websocket.DefaultDialer.Dial
Dial ==
    /\ pc = "dial"
    /\ \E ok \in BOOLEAN :
         IF ok
         THEN /\ conn' = "open"
              /\ trace' = Append(trace, Ev("dial", TRUE))
              /\ pc' = "subscribe"
              /\ UNCHANGED retErr
         ELSE /\ trace' = Append(trace, Ev("dial", FALSE))
              /\ retErr' = "failed to connect"
              /\ pc' = "returned"
              /\ UNCHANGED conn
    /\ UNCHANGED <<env, kafkaWriter, counters, messageJSON, message,
                   inflight, delivered, exitCode>>

\* a plausible slip: the result of the subscribe send is not checked
Subscribe_IgnoreSendErr ==
    /\ pc = "subscribe"
    /\ \E ok \in BOOLEAN :
         /\ trace' = Append(trace, Ev(IF ok THEN "send" ELSE "sendErr",
                                      subscribeMessage))
         /\ pc' = "subscribed"
         /\ UNCHANGED <<conn, retErr>>
    /\ UNCHANGED <<env, kafkaWriter, counters, messageJSON, message,
                   inflight, delivered, exitCode>>

\* a plausible slip: the close is deferred only after the subscribe send, so
\* a failed send returns with the connection open
Subscribe_NoCloseOnFail ==
    /\ pc = "subscribe"
    /\ \E ok \in BOOLEAN :
         IF ok
         THEN /\ trace' = Append(trace, Ev("send", subscribeMessage))
              /\ pc' = "subscribed"
              /\ UNCHANGED retErr
         ELSE /\ trace' = Append(trace, Ev("sendErr", subscribeMessage))
              /\ retErr' = "failed to send subscribe message"
              /\ pc' = "returned"
    /\ UNCHANGED <<env, kafkaWriter, counters, conn, messageJSON, message,
                   inflight, delivered, exitCode>>

\* main.go:40-54: marshal the subscribe message and send it; on failure the
\* deferred conn.Close() runs as the function returns
Subscribe ==
    /\ pc = "subscribe"
    /\ IF SubscribeMarshalErr
       THEN /\ trace' = Append(trace, Ev("connClose", TRUE))
            /\ conn' = "closed"
            /\ retErr' = "failed to marshal subscribe message"
            /\ pc' = "returned"
       ELSE \E ok \in BOOLEAN :
              IF ok
              THEN /\ trace' = Append(trace, Ev("send", subscribeMessage))
                   /\ pc' = "subscribed"
                   /\ UNCHANGED <<conn, retErr>>
              ELSE /\ trace' = Append(Append(trace, Ev("sendErr", subscribeMessage)),
                                      Ev("connClose", TRUE))
                   /\ conn' = "closed"
                   /\ retErr' = "failed to send subscribe message"
                   /\ pc' = "returned"
    /\ UNCHANGED <<env, kafkaWriter, counters, messageJSON, message,
                   inflight, delivered, exitCode>>

\* main.go:56: control enters the read loop
EnterLoop ==
    /\ pc = "subscribed"
    /\ pc' = "read"
    /\ UNCHANGED <<env, kafkaWriter, counters, conn, messageJSON, message,
                   inflight, delivered, retErr, exitCode, trace>>

\* a plausible slip: the end of the stream is treated as a clean return
ReadMessage_CleanClose ==
    /\ pc = "read"
    /\ \/ \E f \in Frames :
            /\ NumReads < MaxFrames
            /\ messageJSON' = f
            /\ trace' = Append(trace, Ev("read", f))
            /\ pc' = "unmarshal"
            /\ UNCHANGED <<conn, retErr>>
       \/ /\ trace' = Append(Append(trace, Ev("readErr", TRUE)),
                             Ev("connClose", TRUE))
          /\ conn' = "closed"
          /\ pc' = "returned"
          /\ UNCHANGED <<messageJSON, retErr>>
    /\ UNCHANGED <<env, kafkaWriter, counters, message, inflight, delivered,
                   exitCode>>

\* a plausible slip: a failed read dials again instead of returning
ReadMessage_Reconnect ==
    /\ pc = "read"
    /\ \/ \E f \in Frames :
            /\ NumReads < MaxFrames
            /\ messageJSON' = f
            /\ trace' = Append(trace, Ev("read", f))
            /\ pc' = "unmarshal"
            /\ UNCHANGED <<conn, retErr>>
       \/ /\ trace' = Append(Append(trace, Ev("readErr", TRUE)),
                             Ev("connClose", TRUE))
          /\ conn' = "closed"
          /\ Len(trace) < 12 * (MaxFrames + 1)
          /\ pc' = "dial"
          /\ UNCHANGED <<messageJSON, retErr>>
    /\ UNCHANGED <<env, kafkaWriter, counters, message, inflight, delivered,
                   exitCode>>

\* main.go:57-60: conn.ReadMessage(); an error or a close ends the function
ReadMessage ==
    /\ pc = "read"
    /\ \/ \E f \in Frames :
            /\ NumReads < MaxFrames
            /\ messageJSON' = f
            /\ trace' = Append(trace, Ev("read", f))
            /\ pc' = "unmarshal"
            /\ UNCHANGED <<conn, retErr>>
       \/ /\ trace' = Append(Append(trace, Ev("readErr", TRUE)),
                             Ev("connClose", TRUE))
          /\ conn' = "closed"
          /\ retErr' = "failed to read message"
          /\ pc' = "returned"
          /\ UNCHANGED messageJSON
    /\ UNCHANGED <<env, kafkaWriter, counters, message, inflight, delivered,
                   exitCode>>

\* a plausible slip: a decode error is returned instead of skipped
Decode_ReturnsErr ==
    /\ pc = "unmarshal"
    /\ LET r == Unmarshal(messageJSON) IN
         /\ message' = r.message
         /\ IF r.err
            THEN /\ trace' = Append(trace, Ev("connClose", TRUE))
                 /\ conn' = "closed"
                 /\ retErr' = "failed to unmarshal message"
                 /\ pc' = "returned"
            ELSE /\ pc' = "filter"
                 /\ UNCHANGED <<trace, conn, retErr>>
    /\ UNCHANGED <<env, kafkaWriter, counters, messageJSON, inflight,
                   delivered, exitCode>>

\* main.go:62-66: decode the frame; a failure is logged and the loop continues
Decode ==
    /\ pc = "unmarshal"
    /\ LET r == Unmarshal(messageJSON) IN
         /\ message' = r.message
         /\ IF r.err
            THEN /\ trace' = Log(trace, "failed to unmarshal message")
                 /\ pc' = "read"
            ELSE /\ pc' = "filter"
                 /\ UNCHANGED trace
    /\ UNCHANGED <<env, kafkaWriter, counters, conn, messageJSON, inflight,
                   delivered, retErr, exitCode>>

\* a plausible slip: an envelope of an unexpected kind ends the function
Filter_ReturnsOnOtherKind ==
    /\ pc = "filter"
    /\ IF IsPositionReport(message)
       THEN /\ trace' = Append(trace, Ev("print", message.PositionReport))
            /\ pc' = "publish"
            /\ UNCHANGED <<conn, retErr>>
       ELSE /\ trace' = Append(trace, Ev("connClose", TRUE))
            /\ conn' = "closed"
            /\ retErr' = "unexpected message type"
            /\ pc' = "returned"
    /\ UNCHANGED <<env, kafkaWriter, counters, messageJSON, message,
                   inflight, delivered, exitCode>>

\* main.go:68-75: only PositionReport envelopes go on; they are printed first
Filter ==
    /\ pc = "filter"
    /\ IF IsPositionReport(message)
       THEN /\ trace' = Append(trace, Ev("print", message.PositionReport))
            /\ pc' = "publish"
       ELSE /\ pc' = "read"
            /\ UNCHANGED trace
    /\ UNCHANGED <<env, kafkaWriter, counters, conn, messageJSON, message,
                   inflight, delivered, retErr, exitCode>>

\* a plausible slip: the write is started in its own goroutine and the loop
\* goes on without waiting for it
PublishCall_Goroutine ==
    /\ pc = "publish"
    /\ LET msg == KafkaMessage(message, messageJSON)
           p   == LeastBytesBalance(counters)
           rec == [Key |-> msg.Key, Value |-> msg.Value,
                   Topic |-> kafkaWriter.Topic, Addr |-> kafkaWriter.Addr,
                   partition |-> p, frame |-> NumReads]
       IN /\ counters' = [counters EXCEPT
                            ![p] = @ + Len(msg.Key) + RawLen(msg.Value)]
          /\ inflight' = Append(inflight, rec)
          /\ trace' = Append(trace, Ev("publish", rec))
          /\ pc' = "read"
    /\ UNCHANGED <<env, kafkaWriter, conn, messageJSON, message, delivered,
                   retErr, exitCode>>

\* main.go:78-83: kafkaWriter.WriteMessages is called with one message.  The
\* writer either fails before it can assign a partition, or assigns one with
\* its balancer and hands the record to the broker; a synchronous writer then
\* waits for the broker's answer.
PublishCall ==
    /\ pc = "publish"
    /\ LET msg == KafkaMessage(message, messageJSON)
           p   == LeastBytesBalance(counters)
           rec == [Key |-> msg.Key, Value |-> msg.Value,
                   Topic |-> kafkaWriter.Topic, Addr |-> kafkaWriter.Addr,
                   partition |-> p, frame |-> NumReads]
       IN \E reachable \in BOOLEAN :
            IF ~reachable
            THEN /\ trace' = Log(Append(Append(trace, Ev("publish", rec)),
                                        Ev("publishReturn", FALSE)),
                                 "failed to write message to kafka")
                 /\ pc' = "read"
                 /\ UNCHANGED <<counters, inflight>>
            ELSE /\ counters' = [counters EXCEPT
                                   ![p] = @ + Len(msg.Key) + RawLen(msg.Value)]
                 /\ inflight' = Append(inflight, rec)
                 /\ IF kafkaWriter.Async
                    THEN /\ trace' = Append(Append(trace, Ev("publish", rec)),
                                            Ev("publishReturn", TRUE))
                         /\ pc' = "read"
                    ELSE /\ trace' = Append(trace, Ev("publish", rec))
                         /\ pc' = "awaitAck"
    /\ UNCHANGED <<env, kafkaWriter, conn, messageJSON, message, delivered,
                   retErr, exitCode>>

\* a plausible slip: a failed write is attempted again
PublishReturn_Retry ==
    /\ pc = "awaitAck"
    /\ inflight # <<>>
    /\ \E ok \in BOOLEAN :
         /\ inflight' = Tail(inflight)
         /\ IF ok
            THEN /\ delivered' = Append(delivered, Head(inflight))
                 /\ trace' = Append(trace, Ev("publishReturn", TRUE))
                 /\ pc' = "read"
            ELSE /\ trace' = Log(Append(trace, Ev("publishReturn", FALSE)),
                                 "failed to write message to kafka")
                 /\ pc' = IF Len(trace) < 12 * (MaxFrames + 1)
                          THEN "publish" ELSE "read"
                 /\ UNCHANGED delivered
    /\ UNCHANGED <<env, kafkaWriter, counters, conn, messageJSON, message,
                   retErr, exitCode>>

\* a plausible slip: a failed write ends the function
PublishReturn_Fatal ==
    /\ pc = "awaitAck"
    /\ inflight # <<>>
    /\ \E ok \in BOOLEAN :
         /\ inflight' = Tail(inflight)
         /\ IF ok
            THEN /\ delivered' = Append(delivered, Head(inflight))
                 /\ trace' = Append(trace, Ev("publishReturn", TRUE))
                 /\ pc' = "read"
                 /\ UNCHANGED <<conn, retErr>>
            ELSE /\ trace' = Append(Append(trace, Ev("publishReturn", FALSE)),
                                    Ev("connClose", TRUE))
                 /\ conn' = "closed"
                 /\ retErr' = "failed to write message to kafka"
                 /\ pc' = "returned"
                 /\ UNCHANGED delivered
    /\ UNCHANGED <<env, kafkaWriter, counters, messageJSON, message, exitCode>>

\* main.go:83-86: WriteMessages returns once the broker has answered; an
\* error is logged and the loop continues
PublishReturn ==
    /\ pc = "awaitAck"
    /\ inflight # <<>>
    /\ \E ok \in BOOLEAN :
         /\ inflight' = Tail(inflight)
         /\ IF ok
            THEN /\ delivered' = Append(delivered, Head(inflight))
                 /\ trace' = Append(trace, Ev("publishReturn", TRUE))
            ELSE /\ trace' = Log(Append(trace, Ev("publishReturn", FALSE)),
                                 "failed to write message to kafka")
                 /\ UNCHANGED delivered
         /\ pc' = "read"
    /\ UNCHANGED <<env, kafkaWriter, counters, conn, messageJSON, message,
                   retErr, exitCode>>

\* a plausible slip: main calls connectAISStream again after an error
Exit_Restart ==
    /\ pc = "returned"
    /\ IF retErr # "" /\ Len(trace) < 12 * (MaxFrames + 1)
       THEN /\ trace' = Log(trace, retErr)
            /\ retErr' = ""
            /\ pc' = "dial"
            /\ UNCHANGED <<exitCode, kafkaWriter>>
       ELSE /\ trace' = Append(Log(trace, retErr), Ev("exit", 1))
            /\ exitCode' = 1
            /\ pc' = "exited"
            /\ UNCHANGED <<kafkaWriter, retErr>>
    /\ UNCHANGED <<env, counters, conn, messageJSON, message, inflight,
                   delivered>>

\* main.go:113-116: connectAISStream has returned.  With an error, log.Fatal
\* logs it and calls os.Exit(1), which does not run deferred calls; with nil,
\* main returns, the deferred kafkaWriter.Close() runs and the code is 0.
Exit ==
    /\ pc = "returned"
    /\ IF retErr # ""
       THEN /\ trace' = Append(Log(trace, retErr), Ev("exit", 1))
            /\ exitCode' = 1
            /\ UNCHANGED kafkaWriter
       ELSE /\ trace' = Append(Append(trace, Ev("writerClose", TRUE)),
                               Ev("exit", 0))
            /\ exitCode' = 0
            /\ kafkaWriter' = [kafkaWriter EXCEPT !.closed = TRUE]
    /\ pc' = "exited"
    /\ UNCHANGED <<env, counters, conn, messageJSON, message, inflight,
                   delivered, retErr>>

Next ==
    \/ MainStart
    \/ Dial
    \/ Subscribe
    \/ EnterLoop
    \/ ReadMessage
    \/ Decode
    \/ Filter
    \/ PublishCall
    \/ PublishReturn
    \/ Exit

Spec == Init /\ [][Next]_vars


(* ------------------------ vocabulary of the claims ---------------------- *)

Ops(o) == {i \in 1 .. Len(trace) : trace[i].op = o}

\* the read attempts: successful reads and the failing one
ReadAttempts == Ops("read") \cup Ops("readErr")

RECURSIVE FirstReadAttemptFrom(_)
\* index of the first read attempt at or after position j (Len(trace)+1 if
\* none)
FirstReadAttemptFrom(j) ==
    IF j > Len(trace) THEN Len(trace) + 1
    ELSE IF trace[j].op \in {"read", "readErr"} THEN j
    ELSE FirstReadAttemptFrom(j + 1)

\* index of the first read attempt after position i (Len(trace)+1 if none)
NextReadAfter(i) == FirstReadAttemptFrom(i + 1)

\* what the program did for the frame read at position i
Segment(i) == (i + 1) .. (NextReadAfter(i) - 1)

PublishesIn(i) == {j \in Segment(i) : trace[j].op = "publish"}

\* the program has finished with the frame read at position i
SegmentDone(i) == NextReadAfter(i) <= Len(trace) \/ pc = "read"

\* the frame decodes to an envelope of kind PositionReport
IsPositionReportFrame(f) ==
    /\ ~Unmarshal(f).err
    /\ Unmarshal(f).message.MessageType = "PositionReport"

IsDigit(c) == \E d \in 0 .. 9 : DigitChars[d + 1] = c

DigitValue(c) == CHOOSE d \in 0 .. 9 : DigitChars[d + 1] = c

RECURSIVE DecValue(_)
\* the number a sequence of decimal digits denotes
DecValue(s) ==
    IF s = <<>> THEN 0
    ELSE 10 * DecValue(SubSeq(s, 1, Len(s) - 1)) + DigitValue(s[Len(s)])

IsUnsignedDecimalOf(s, n) ==
    /\ Len(s) >= 1
    /\ \A k \in 1 .. Len(s) : IsDigit(s[k])
    /\ Len(s) > 1 => s[1] # "0"
    /\ DecValue(s) = n

\* s is the decimal numeral of the integer n
IsDecimalOf(s, n) ==
    IF n < 0
    THEN Len(s) >= 2 /\ s[1] = "-" /\ IsUnsignedDecimalOf(Tail(s), -n)
    ELSE IsUnsignedDecimalOf(s, n)

(* -------------------------------- claims -------------------------------- *)

\* C1: every PositionReport envelope read is handed to the broker with the
\* decimal numeral of its UserID as key and the raw frame, byte for byte, as
\* value.
C1_VerbatimForward ==
    \A i \in Ops("read") :
        LET f == trace[i].arg IN
        IsPositionReportFrame(f) =>
            /\ \A j \in PublishesIn(i) :
                  /\ IsDecimalOf(trace[j].arg.Key,
                                 Unmarshal(f).message.PositionReport.UserID)
                  /\ trace[j].arg.Value = f
            /\ SegmentDone(i) => PublishesIn(i) # {}

\* The end-to-end scenario and a frame whose text is not the canonical
\* serialization of its struct have both been published.
C1_Witness ==
    /\ \E j \in Ops("publish") :
          /\ trace[j].arg.Value = FramePR367
          /\ trace[j].arg.Key = <<"3", "6", "7", "1", "2", "3", "4", "5", "6">>
    /\ \E j \in Ops("publish") :
          /\ trace[j].arg.Value = FramePR5
          /\ Marshal(Unmarshal(FramePR5).message) # FramePR5
    /\ \E j \in Ops("publish") : trace[j].arg.Key = <<"-", "7">>

\* C2: a frame that decodes to an envelope of another kind causes nothing
\* between its read and the next read attempt (no publish, no error logged),
\* and the pipeline stays in Streaming.
C2_OtherKindsDiscarded ==
    \A i \in Ops("read") :
        LET f == trace[i].arg IN
        (~Unmarshal(f).err /\ ~IsPositionReportFrame(f)) =>
            /\ Segment(i) = {}
            /\ NextReadAfter(i) > Len(trace) => State = "Streaming"

C2_Witness ==
    \E i \in Ops("read") :
        /\ trace[i].arg = FrameStatic
        /\ i < Len(trace)
        /\ trace[i + 1].op = "read"

\* C3: a frame whose decode fails is logged and nothing else: no publish,
\* the pipeline stays in Streaming and the next operation is a read.
C3_DecodeFailureSkipped ==
    \A i \in Ops("read") :
        Unmarshal(trace[i].arg).err =>
            /\ \A j \in Segment(i) :
                  /\ trace[j].op = "log"
                  /\ trace[j].arg = "failed to unmarshal message"
            /\ Cardinality(Segment(i)) <= 1
            /\ NextReadAfter(i) > Len(trace) =>
                  /\ State = "Streaming"
                  /\ pc \in {"unmarshal", "read"}
                  /\ pc = "read" <=> Segment(i) # {}

C3_Witness ==
    \E i \in Ops("read") :
        /\ trace[i].arg = FrameTruncated
        /\ i + 2 <= Len(trace)
        /\ trace[i + 1].op = "log"
        /\ trace[i + 2].op = "read"
        /\ IsPositionReportFrame(trace[i + 2].arg)

\* C4: after a publish call has returned, with or without an error, the
\* program is at the read of the next frame in the same state: only the log
\* line separates a failed publish from the next read attempt, and the
\* pipeline is not terminated by it.
C4_PublishErrorNotFatal ==
    \A j \in Ops("publishReturn") :
        LET n == NextReadAfter(j) IN
        /\ \A k \in (j + 1) .. (n - 1) :
              /\ trace[k].op = "log"
              /\ ~trace[j].arg
        /\ n > Len(trace) =>
              /\ State = "Streaming"
              /\ pc = "read"
              /\ retErr = ""
              /\ conn = "open"
              /\ exitCode = -1

C4_Witness ==
    \E j \in Ops("publishReturn") :
        /\ ~trace[j].arg
        /\ \E k \in Ops("read") :
              /\ k > j
              /\ PublishesIn(k) # {}

\* C5: once a read has failed the pipeline is Terminated, and nothing is
\* read, published, dialled or sent after it.
C5_ReadFailureTerminates ==
    \A k \in Ops("readErr") :
        /\ State = "Terminated"
        /\ \A j \in (k + 1) .. Len(trace) :
              trace[j].op \notin
                  {"read", "readErr", "publish", "publishReturn", "dial", "send"}

C5_Witness ==
    /\ Ops("readErr") # {}
    /\ Ops("publish") # {}
    /\ pc = "exited"

\* C6: records with the same key land in the same partition.
C6_SameKeySamePartition ==
    \A i, j \in 1 .. Len(delivered) :
        delivered[i].Key = delivered[j].Key =>
            delivered[i].partition = delivered[j].partition

Edges ==
    {<<"Disconnected", "Connecting">>, <<"Connecting", "Subscribed">>,
     <<"Connecting", "Terminated">>, <<"Subscribed", "Streaming">>,
     <<"Streaming", "Streaming">>, <<"Streaming", "Terminated">>}

\* C7: the state changes only along the edges of the state machine,
\* Terminated is never left, and at most one connection attempt is made.
C7_StateMachine ==
    [][/\ State' # State => <<State, State'>> \in Edges
       /\ State = "Terminated" => State' = "Terminated"
       /\ Cardinality(Ops("dial"))' <= 1]_vars

C7_Witness ==
    /\ pc = "exited"
    /\ Cardinality(Ops("dial")) = 1
    /\ Cardinality(Ops("read")) >= 2

\* C8: a failed connect or a failed subscribe send terminates the pipeline
\* at once with an error: nothing is read or published, and the exit code is
\* not zero.
C8_ConnectFailureFatal ==
    (\E k \in 1 .. Len(trace) :
        \/ trace[k].op = "dial" /\ ~trace[k].arg
        \/ trace[k].op = "sendErr") =>
            /\ State = "Terminated"
            /\ retErr # ""
            /\ ReadAttempts = {}
            /\ Ops("publish") = {}
            /\ pc = "exited" => exitCode > 0

C8_Witness ==
    /\ Ops("sendErr") # {}
    /\ pc = "exited"
    /\ exitCode = 1

\* C9: the read loop never runs ahead of the broker: a record is in flight
\* only while the program waits inside the publish call, and never more than
\* one.
C9_PublishSynchronous ==
    /\ Len(inflight) <= 1
    /\ pc # "awaitAck" => inflight = <<>>
    /\ \A i \in Ops("read") :
          \A j \in Ops("publish") :
              j < i => \E r \in Ops("publishReturn") : j < r /\ r < i

C9_Witness ==
    /\ pc = "awaitAck"
    /\ Len(inflight) = 1
    /\ Cardinality(Ops("publishReturn")) >= 1

\* C10: each frame read is published exactly once if it is a PositionReport
\* envelope and never otherwise; a failed publish is not attempted again.
C10_AtMostOnce ==
    /\ \A i \in Ops("read") :
          /\ Cardinality(PublishesIn(i)) <= 1
          /\ ~IsPositionReportFrame(trace[i].arg) => PublishesIn(i) = {}
          /\ (IsPositionReportFrame(trace[i].arg) /\ SegmentDone(i)) =>
                Cardinality(PublishesIn(i)) = 1
    /\ \A j, k \in Ops("publish") :
          trace[j].arg.frame = trace[k].arg.frame => j = k

C10_Witness ==
    /\ \E j \in Ops("publishReturn") :
          /\ ~trace[j].arg
          /\ \E k \in Ops("readErr") : k > j
    /\ delivered # <<>>
    /\ pc = "exited"

\* C11: the process never exits with code 0: connectAISStream returns only
\* with an error, and the exit that follows has a code above zero and comes
\* right after the log line that carries that error.
C11_NeverExitsZero ==
    /\ exitCode # 0
    /\ pc \in {"returned", "exited"} <=> retErr # ""
    /\ pc = "exited" <=> exitCode # -1
    /\ pc = "exited" =>
          /\ exitCode > 0
          /\ Ops("exit") = {Len(trace)}
          /\ trace[Len(trace)].arg = exitCode
          /\ trace[Len(trace) - 1].op = "log"
          /\ trace[Len(trace) - 1].arg = retErr

C11_Witness ==
    /\ pc = "exited"
    /\ retErr = "failed to read message"
    /\ exitCode = 1
    /\ Ops("read") # {}

\* the subscribe requests handed to the connection, sent or not
SubscribeRequests ==
    {trace[i].arg : i \in Ops("send") \cup Ops("sendErr")}

\* C12: the SubscribeRequest carries at least one bounding box, and every
\* corner, read as (latitude, longitude), has its latitude in [-90, 90] and
\* its longitude in [-180, 180].
C12_BoundingBoxesValid ==
    \A req \in SubscribeRequests :
        /\ Len(req.BoundingBoxes) >= 1
        /\ \A b \in 1 .. Len(req.BoundingBoxes) :
              \A c \in 1 .. Len(req.BoundingBoxes[b]) :
                  LET corner == req.BoundingBoxes[b][c] IN
                  /\ Len(corner) = 2
                  /\ corner[1] >= -90 /\ corner[1] <= 90
                  /\ corner[2] >= -180 /\ corner[2] <= 180

\* C13: the subscribe request is the one frame the program writes to the
\* upstream connection: it is written at most once, after the dial, and no
\* read attempt and no publish call happens unless that send has succeeded
\* earlier.
C13_SubscribeFirstAndOnce ==
    /\ Cardinality(Ops("send") \cup Ops("sendErr")) <= 1
    /\ \A s \in Ops("send") \cup Ops("sendErr") :
          /\ trace[s].arg = subscribeMessage
          /\ \E d \in Ops("dial") : d < s /\ trace[d].arg
    /\ \A i \in ReadAttempts \cup Ops("publish") :
          \E s \in Ops("send") : s < i
    /\ State \in {"Subscribed", "Streaming"} => Ops("send") # {}

C13_Witness ==
    /\ Cardinality(Ops("send")) = 1
    /\ Cardinality(Ops("read")) >= 2
    /\ Ops("publish") # {}

\* C14 as stated: every publish goes to the host:port named by
\* BROKER_ADDRESS (localhost:9092 when empty) and to the topic named by
\* TOPIC_NAME (ais-position-reports when empty).
C14_BrokerAddressTopicName ==
    \A j \in Ops("publish") :
        /\ trace[j].arg.Addr =
              (IF env["BROKER_ADDRESS"] # "" THEN env["BROKER_ADDRESS"]
               ELSE "localhost:9092")
        /\ trace[j].arg.Topic =
              (IF env["TOPIC_NAME"] # "" THEN env["TOPIC_NAME"]
               ELSE "ais-position-reports")

\* C14 as amended: every publish goes to the host:port named by KAFKA_BROKER
\* (localhost:9092 when empty) and to the topic named by KAFKA_TOPIC
\* (ais-position-reports when empty); BROKER_ADDRESS and TOPIC_NAME are not
\* read.
C14_KafkaBrokerKafkaTopic ==
    \A j \in Ops("publish") :
        /\ env["KAFKA_BROKER"] # "" => trace[j].arg.Addr = env["KAFKA_BROKER"]
        /\ env["KAFKA_BROKER"] = "" => trace[j].arg.Addr = "localhost:9092"
        /\ env["KAFKA_TOPIC"] # "" => trace[j].arg.Topic = env["KAFKA_TOPIC"]
        /\ env["KAFKA_TOPIC"] = "" =>
              trace[j].arg.Topic = "ais-position-reports"

C14_Witness ==
    /\ env["KAFKA_BROKER"] = "kafka:9092"
    /\ env["BROKER_ADDRESS"] = "broker:9093"
    /\ \E j \in Ops("publish") :
          /\ trace[j].arg.Addr = "kafka:9092"
          /\ trace[j].arg.Topic = "ais"

\* C15: a step taken in Streaming leads to Terminated exactly when it is a
\* failed read; every other step (a successful read, a decode or a publish,
\* whatever its outcome) leaves the pipeline in Streaming.
C15_TerminatesOnlyOnReadFailure ==
    [][State = "Streaming" =>
          /\ State' \in {"Streaming", "Terminated"}
          /\ State' = "Terminated" <=>
                /\ pc = "read"
                /\ Len(trace') > Len(trace)
                /\ trace'[Len(trace) + 1].op = "readErr"]_vars

C15_Witness ==
    /\ pc = "returned"
    /\ retErr = "failed to read message"
    /\ \E i \in Ops("log") : trace[i].arg = "failed to unmarshal message"
    /\ \E i \in Ops("log") : trace[i].arg = "failed to write message to kafka"
    /\ \E i \in Ops("read") : trace[i].arg = FrameStatic

\* the text says PositionReport but carries no PositionReport object
IsEmptyPayloadFrame(f) ==
    f.syntax = "ok" /\ f.mtype = "PositionReport" /\ ~f.hasPR

\* C16 as stated: no publish call is made for a PositionReport envelope
\* whose payload is absent.
C16_EmptyPayloadDropped ==
    \A i \in Ops("read") :
        IsEmptyPayloadFrame(trace[i].arg) => PublishesIn(i) = {}

\* C16 as amended: a PositionReport envelope whose payload is absent decodes
\* to the zero values and is published like any other: one publish call with
\* key "0" and the raw frame as value.
C16_EmptyPayloadPublished ==
    \A i \in Ops("read") :
        IsEmptyPayloadFrame(trace[i].arg) =>
            /\ Unmarshal(trace[i].arg).message.PositionReport = ZeroPositionReport
            /\ \A j \in PublishesIn(i) :
                  /\ trace[j].arg.Key = <<"0">>
                  /\ trace[j].arg.Value = trace[i].arg
            /\ SegmentDone(i) => Cardinality(PublishesIn(i)) = 1

C16_Witness ==
    \E j \in Ops("publishReturn") :
        /\ trace[j].arg
        /\ trace[j - 1].op = "publish"
        /\ trace[j - 1].arg.Value = FramePREmpty
        /\ trace[j - 1].arg.Key = <<"0">>

RECURSIVE LastReadUpTo(_)
\* the position of the last successful read at or before position j (0 if
\* none)
LastReadUpTo(j) ==
    IF j < 1 THEN 0
    ELSE IF trace[j].op = "read" THEN j
    ELSE LastReadUpTo(j - 1)

\* the position of the last successful read before position j
LastReadBefore(j) == LastReadUpTo(j - 1)

\* C17: publish calls follow the order of arrival: each call carries the
\* frame read last, no frame is published after a later one, and a call has
\* returned before the next one starts.
C17_PublishInArrivalOrder ==
    /\ \A j \in Ops("publish") :
          /\ LastReadBefore(j) >= 1
          /\ trace[j].arg.Value = trace[LastReadBefore(j)].arg
          /\ trace[j].arg.frame =
                Cardinality({r \in Ops("read") : r <= LastReadBefore(j)})
    /\ \A j, k \in Ops("publish") :
          j < k =>
             /\ trace[j].arg.frame < trace[k].arg.frame
             /\ LastReadBefore(j) < LastReadBefore(k)
             /\ \E r \in Ops("publishReturn") : j < r /\ r < k

C17_Witness ==
    \E j, k \in Ops("publish") :
        /\ j < k
        /\ trace[j].arg.Key = trace[k].arg.Key
        /\ trace[j].arg.frame + 1 < trace[k].arg.frame
        /\ Len(delivered) >= 2

\* the frame is a PositionReport envelope whose latitude or longitude lies
\* outside the valid range (hundredths of a degree)
IsOutOfRangeFrame(f) ==
    /\ IsPositionReportFrame(f)
    /\ f.hasPR
    /\ \/ f.lat < -9000 \/ f.lat > 9000
       \/ f.lon < -18000 \/ f.lon > 18000

\* C18: a PositionReport envelope with coordinates out of range is printed
\* with its coordinates as received and published once, keyed by the decimal
\* numeral of its UserID, with the raw frame as value.
C18_NoRangeValidation ==
    \A i \in Ops("read") :
        LET f == trace[i].arg IN
        IsOutOfRangeFrame(f) =>
            /\ \A j \in Segment(i) :
                  /\ trace[j].op = "print" =>
                        /\ trace[j].arg.Latitude = f.lat
                        /\ trace[j].arg.Longitude = f.lon
                  /\ trace[j].op = "publish" =>
                        /\ IsDecimalOf(trace[j].arg.Key, f.uid)
                        /\ trace[j].arg.Value = f
            /\ SegmentDone(i) => Cardinality(PublishesIn(i)) = 1

C18_Witness ==
    /\ IsOutOfRangeFrame(FramePRRange)
    /\ \E j \in 1 .. Len(delivered) :
          /\ delivered[j].Value = FramePRRange
          /\ delivered[j].Key = <<"-", "7">>

\* C19: whenever the process has exited after the broker writer was created,
\* the writer has been closed.
C19_WriterClosedBeforeExit ==
    pc = "exited" =>
        /\ kafkaWriter.closed
        /\ \E c \in Ops("writerClose") : \A x \in Ops("exit") : c < x

\* C20: when connectAISStream has returned, a connection that was opened has
\* been closed, once, after the failure that ended the function; when the
\* dial failed nothing was closed.  Until then an opened connection stays
\* open.
C20_ConnClosedOnReturn ==
    /\ pc \in {"returned", "exited"} =>
          IF \E d \in Ops("dial") : trace[d].arg
          THEN /\ conn = "closed"
               /\ Cardinality(Ops("connClose")) = 1
               /\ \A c \in Ops("connClose") :
                     /\ c > 1
                     /\ trace[c - 1].op \in {"sendErr", "readErr"}
          ELSE /\ conn = "nil"
               /\ Ops("connClose") = {}
    /\ pc \notin {"returned", "exited"} =>
          /\ Ops("connClose") = {}
          /\ conn = (IF \E d \in Ops("dial") : trace[d].arg
                     THEN "open" ELSE "nil")

C20_Witness ==
    /\ pc = "returned"
    /\ Ops("sendErr") # {}
    /\ conn = "closed"

====
